---- MODULE Spec2Model ----
(***************************************************************************)
(* Backend abstraction and streaming-session orchestration of bigcam.      *)
(*                                                                         *)
(* The state machines are modelled over one set of variables:              *)
(*   SpecSession  - window._on_camera_selected and its worker threads,     *)
(*                  StreamEngine (play / stop / first appsink attempt) and *)
(*                  the GPhoto2Backend helper bookkeeping, for one DSLR    *)
(*                  and one webcam;                                        *)
(*   SpecRetry    - the same with one DSLR whose appsink pipeline may fail *)
(*                  to connect: the retry timer of StreamEngine;           *)
(*   SpecCapture  - the same with two DSLRs, native photo capture and the  *)
(*                  closing of the window;                                 *)
(*   SpecRegistry - CameraManager detection passes and manual IP cameras.  *)
(***************************************************************************)
EXTENDS Naturals, Integers, Sequences, FiniteSets, TLC

\* ------------------------------------------------------------------------
\* Bounds of the model
\* ------------------------------------------------------------------------

\* number of do_controls_then_stream worker threads that may exist at once
MaxWorkers == 2

\* ------------------------------------------------------------------------
\* Program constants
\* ------------------------------------------------------------------------

\* stream_engine.py: self._appsink_max_retries = 30
appsink_max_retries == 30

None == "None"

\* cameras of the session model: two DSLR (GPHOTO2), one webcam (V4L2),
\* one phone bridge (PHONE)
GCams == {"g1", "g2"}
VCams == {"v1"}
PCams == {"ph"}
Cameras == GCams \cup VCams \cup PCams

\* camera.backend
BackendOf(c) ==
    IF c \in GCams THEN "GPHOTO2" ELSE IF c \in VCams THEN "V4L2" ELSE "PHONE"

\* USB ports ("usb:001,00N") a DSLR can sit on
Ports == {"u1", "u2", "u3"}

\* order in which gphoto2 --auto-detect lists the ports
PortOrder == <<"u1", "u2", "u3">>

\* model names reported by gphoto2 --auto-detect
Names == {"EOS", "EOS R", "D850"}

\* Python's  a in b  on the model names
IsSubstring(a, b) == a = b \/ (a = "EOS" /\ b = "EOS R")

\* ------------------------------------------------------------------------
\* State
\* ------------------------------------------------------------------------
VARIABLES
    \* --- window.py: BigDigicamWindow
    active_camera,        \* self._active_camera
    streaming_lock,       \* self._streaming_lock.locked()
    controls_cache,       \* keys of self._controls_cache (camera ids)
    workers,              \* threads running do_controls_then_stream
    stop_threads,         \* threads running old_backend_obj.stop_streaming(old_camera)
    capture_thread,       \* thread running _capture_in_thread
    idle_queue,           \* GLib.idle_add callbacks not yet run, oldest first
    closed,               \* the window was closed (_cleanup_and_close ran)
    \* --- stream_engine.py: StreamEngine
    current_camera,       \* self._current_camera
    pipeline,             \* self._pipeline is not None
    appsink_timer_id,     \* pending GLib timeout: "none", "first" (2 s) or "retry" (500 ms)
    appsink_retry_count,  \* self._appsink_retry_count
    fps_timer_id,         \* self._fps_timer_id is not None
    phone_server_ref,     \* self._phone_server_ref is not None
    frame_callback,       \* the ingestion server's _frame_callback is _on_phone_frame
    \* --- gphoto2_backend.py: GPhoto2Backend
    active_streams,       \* self._active_streams: port -> udp channel (of which camera)
    streaming_active,     \* self._streaming_active
    cam_port,             \* camera.extra["port"] = camera.device_path; camera.id = "gphoto2:" + port
    cam_udp,              \* camera.extra["udp_port"] of the object the window and its threads hold
    selector_cameras,     \* CameraSelector._cameras: per DSLR, whether the object on offer is a
                          \* new one the window has not been handed yet, and its port and channel
    \* --- camera_manager.py: CameraManager
    hotplug_timer,        \* self._hotplug_timer is not None
    detecting,            \* self._detecting
    cameras,              \* self._cameras: sequence of CameraInfo records
    det_workers,          \* the detection threads: position, all_cameras, seen_ids
    ip_cameras,           \* settings "ip_cameras": the saved URLs, oldest first
    last_lsusb,           \* self._last_lsusb
    usb_checks,           \* threads running _check_usb
    usb,                  \* environment: what lsusb prints now
    \* --- settings
    hotplug_enabled,      \* settings "hotplug_enabled"
    \* --- environment
    helper_procs,         \* live helper processes: port -> udp channel it feeds
    dev_port,             \* the USB port each DSLR really sits on
    cam_name,             \* the model name gphoto2 --auto-detect reports for each DSLR
    attached,             \* the cameras attached to the host (offered by the selector)
    flaky,                \* whether an appsink pipeline may fail to connect
    thread_limit,         \* how many setup threads and completions may exist at once
    \* --- observation
    session,              \* "Idle", "Stopped" or "Started": the last engine operation
    play_errors,          \* "error" signals emitted since the last play()
    visible_state,        \* what the window shows: "stopped" at construction, then
                          \* the last value published with "state-changed"
    last                  \* the step just taken: handler, camera, driver calls, signals

winVars == <<selector_cameras,
             active_camera, streaming_lock, controls_cache, workers, stop_threads,
             capture_thread, closed>>
engVars == <<current_camera, pipeline, appsink_timer_id, appsink_retry_count,
             fps_timer_id, phone_server_ref, frame_callback>>
gpVars  == <<active_streams, streaming_active, cam_port, cam_udp>>
envVars == <<helper_procs, dev_port, cam_name>>
cfgVars == <<attached, flaky, thread_limit, hotplug_enabled>>
obsVars == <<session, play_errors, visible_state>>
regVars == <<detecting, cameras, det_workers, ip_cameras, last_lsusb, usb_checks, usb>>
vars == <<winVars, engVars, gpVars, envVars, cfgVars, obsVars, regVars, hotplug_timer,
          idle_queue, last>>

\* what a step of the camera registry leaves alone
sessVars == <<winVars, engVars, gpVars, envVars, cfgVars, obsVars, hotplug_timer>>

\* ------------------------------------------------------------------------
\* The engine and driver state as one value, so that a handler's calls compose
\* ------------------------------------------------------------------------

AppState ==
    [cur |-> current_camera, pipe |-> pipeline, timer |-> appsink_timer_id,
     retry |-> appsink_retry_count, fps |-> fps_timer_id, phone |-> phone_server_ref,
     cb |-> frame_callback,
     active |-> active_streams, sa |-> streaming_active, port |-> cam_port,
     udp |-> cam_udp, sel |-> selector_cameras,
     procs |-> helper_procs, sess |-> session, errs |-> play_errors,
     shown |-> visible_state,
     act |-> active_camera, lock |-> streaming_lock, cache |-> controls_cache,
     workers |-> workers, stops |-> stop_threads, hot |-> hotplug_timer,
     queue |-> idle_queue, limit |-> thread_limit,
     calls |-> <<>>, sigs |-> <<>>, overflow |-> FALSE]

\* GObject.emit(signal)
Emit(s, sig) ==
    [s EXCEPT !.sigs = Append(@, sig),
              !.errs = IF sig = "error" THEN @ + 1 ELSE @,
              !.shown = IF sig \in {"playing", "stopped"} THEN sig ELSE @]

\* a call of a driver method, recorded for the step
Call(s, name, cam) == [s EXCEPT !.calls = Append(@, <<name, cam>>)]

\* camera.id
CamId(port, c) == IF c \in GCams THEN port[c] ELSE c

\* the selector offers the very object the window holds
SameObject == [new |-> FALSE, port |-> None, udp |-> None]

\* the UDP channels detect_cameras hands out: _UDP_PORT + 0, _UDP_PORT + 1, ...
Channels == <<"5000", "5001">>

\* camera.extra["udp_port"], read by get_gst_source, start_streaming and
\* stop_streaming
UdpPort(s, c) == s.udp[c]

\* ------------------------------------------------------------------------
\* gphoto2_backend.py
\* ------------------------------------------------------------------------

\* the ports gphoto2 --auto-detect lists, in its order
RECURSIVE ListedFrom(_)
ListedFrom(i) ==
    IF i > Len(PortOrder) THEN <<>>
    ELSE LET p == PortOrder[i]
         IN  (IF \E d \in GCams : dev_port[d] = p THEN <<p>> ELSE <<>>)
             \o ListedFrom(i + 1)

AutoDetect == ListedFrom(1)

\* the model name on a listed port
NameAt(p) == cam_name[CHOOSE d \in GCams : dev_port[d] = p]

\* GPhoto2Backend._refresh_port: the first listed line whose name is contained
\* in camera.name gives the port; camera.id follows the port
MatchingLines(c) ==
    SelectSeq(AutoDetect, LAMBDA p : IsSubstring(NameAt(p), cam_name[c]))

_refresh_port(s, c, adOk) ==
    LET old == s.port[c]
    IN  IF ~adOk \/ MatchingLines(c) = <<>>
        THEN [s |-> s, port |-> old]
        ELSE LET p == Head(MatchingLines(c))
             IN  [s |-> [s EXCEPT !.port[c] = p], port |-> p]

\* GPhoto2Backend._release_usb_device: SIGKILL whatever holds the device node
_release_usb_device(s, p) == [s EXCEPT !.procs[p] = None]

\* GPhoto2Backend.get_controls: res is "direct" (one of the three attempts
\* worked), "fallback" or "fail" (the loop ran out: port refresh, last attempt)
get_controls(s, c, res, adOk) ==
    LET s1 == _release_usb_device(Call(s, "get_controls", c), s.port[c])
    IN  IF res = "direct" THEN s1
        ELSE LET r == _refresh_port(s1, c, adOk)
             IN  _release_usb_device(r.s, r.port)

\* GPhoto2Backend.start_streaming up to the launch of the script
start_streaming_begin(s, c, adOk) ==
    LET s1 == [Call(s, "start_streaming", c) EXCEPT !.sa = TRUE]
        r  == _refresh_port(s1, c, adOk)
    IN  IF r.s.active[r.port] # None
        THEN [s |-> r.s, port |-> r.port, done |-> TRUE]
        ELSE [s |-> _release_usb_device(r.s, r.port), port |-> r.port, done |-> FALSE]

\* GPhoto2Backend.start_streaming from the return of the script
start_streaming_end(s, c, p, ok) ==
    IF ok
    THEN [Call(s, "helper_started", c) EXCEPT !.active[p] = UdpPort(s, c),
                                             !.procs[p] = UdpPort(s, c)]
    ELSE [s EXCEPT !.sa = FALSE]

\* GPhoto2Backend.start_streaming as one call (StreamEngine.play)
start_streaming(s, c, adOk, ok) ==
    LET b == start_streaming_begin(s, c, adOk)
    IN  IF b.done THEN [s |-> b.s, r |-> TRUE]
        ELSE [s |-> start_streaming_end(b.s, c, b.port, ok), r |-> ok]

\* GPhoto2Backend.stop_streaming(camera): pkill by port and by udp channel
stop_streaming(s, c) ==
    LET s1 == [Call(s, "stop_streaming", c) EXCEPT !.sa = FALSE]
    IN  IF c # None
        THEN LET p == s1.port[c]
             IN  [s1 EXCEPT !.active[p] = None,
                            !.procs = [q \in Ports |->
                                IF q = p \/ s1.procs[q] = UdpPort(s1, c)
                                THEN None ELSE s1.procs[q]]]
        ELSE [s1 EXCEPT !.active = [q \in Ports |-> None],
                        !.procs = [q \in Ports |-> None]]

\* GPhoto2Backend.is_camera_streaming: the map entry, then pgrep
is_camera_streaming(s, c) ==
    LET p == s.port[c]
        s1 == Call(s, "is_camera_streaming", c)
    IN  IF s1.active[p] = None THEN [s |-> s1, r |-> FALSE]
        ELSE IF s1.procs[p] = None
             THEN [s |-> [s1 EXCEPT !.active[p] = None], r |-> FALSE]
             ELSE [s |-> s1, r |-> TRUE]

\* GPhoto2Backend.needs_streaming_setup, via hasattr in the callers
needs_streaming_setup(c) == BackendOf(c) = "GPHOTO2"

\* ------------------------------------------------------------------------
\* stream_engine.py
\* ------------------------------------------------------------------------

\* _APPSINK_BACKENDS
APPSINK_BACKENDS == {"GPHOTO2", "IP"}

\* variant: stop never disconnects the phone callback
PhoneConnectedNever(s) == FALSE

\* the test  self._phone_server_ref is not None  of stop
PhoneConnected(s) == s.phone

\* variant: the pipeline is dropped without publishing the stopped state
TeardownSilent(s) == [s EXCEPT !.pipe = FALSE, !.cur = None]

\* the branch  if self._pipeline is not None  of stop
TeardownPipeline(s) == Emit([s EXCEPT !.pipe = FALSE, !.cur = None], "stopped")

\* StreamEngine.stop
stop(s, stop_backend) ==
    LET camera == s.cur
        s1 == [s EXCEPT !.fps = FALSE, !.timer = "none", !.sess = "Stopped"]
        s2 == IF PhoneConnected(s1)
              THEN Emit([s1 EXCEPT !.phone = FALSE, !.cb = FALSE, !.cur = None], "stopped")
              ELSE s1
        s3 == IF s2.pipe
              THEN TeardownPipeline(s2)
              ELSE s2
    IN  IF camera # None /\ stop_backend /\ BackendOf(camera) = "GPHOTO2"
        THEN stop_streaming(s3, camera)
        ELSE s3

\* StreamEngine._start_phone_camera (camera.extra["phone_server"] is set)
_start_phone_camera(s, c) ==
    Emit([s EXCEPT !.phone = TRUE, !.cb = TRUE, !.fps = TRUE], "playing")

\* StreamEngine._build_paintable_pipeline: ok says whether a pipeline reached PLAYING
_build_paintable_pipeline(s, ok) ==
    IF ok THEN Emit([s EXCEPT !.pipe = TRUE, !.fps = TRUE], "playing")
    ELSE Emit(s, "error")

\* StreamEngine._build_appsink_pipeline: arm the 2 s timer
_build_appsink_pipeline(s) == [s EXCEPT !.retry = 0, !.timer = "first"]

\* variant: the retry test lets one more attempt through
RetryAgainInclusive(count) == count <= appsink_max_retries

\* the retry test of StreamEngine._try_appsink_pipeline
RetryAgain(count) == count < appsink_max_retries

\* StreamEngine._try_appsink_pipeline: ok says whether one of the two pipelines
\* connected; r is the callback's return value (TRUE = call me again)
_try_appsink_pipeline(s, ok) ==
    IF s.cur = None THEN [s |-> [s EXCEPT !.timer = "none"], r |-> FALSE]
    ELSE LET s1 == [s EXCEPT !.retry = @ + 1]
         IN  IF ok
             THEN [s |-> [Emit([s1 EXCEPT !.pipe = TRUE, !.fps = TRUE], "playing")
                             EXCEPT !.timer = "none"],
                   r |-> FALSE]
             ELSE IF RetryAgain(s1.retry) THEN [s |-> s1, r |-> TRUE]
             ELSE [s |-> [Emit(s1, "error") EXCEPT !.timer = "none"], r |-> FALSE]

\* StreamEngine._try_appsink_first
_try_appsink_first(s, ok) ==
    LET t == _try_appsink_pipeline([s EXCEPT !.timer = "none"], ok)
    IN  IF t.r THEN [t.s EXCEPT !.timer = "retry"] ELSE t.s

\* StreamEngine.play: adOk and ok are the outcomes of the external tools it runs
play(s, c, streaming_ready, adOk, ok) ==
    LET s1 == [stop(s, TRUE) EXCEPT !.cur = c, !.sess = "Started", !.errs = 0]
    IN  IF BackendOf(c) = "PHONE" THEN _start_phone_camera(s1, c)
        ELSE LET st == IF ~streaming_ready /\ needs_streaming_setup(c)
                       THEN start_streaming(s1, c, adOk, ok)
                       ELSE [s |-> s1, r |-> TRUE]
             IN  IF ~st.r THEN Emit(st.s, "error")
                 ELSE IF BackendOf(c) \in APPSINK_BACKENDS
                      THEN _build_appsink_pipeline(st.s)
                      ELSE _build_paintable_pipeline(st.s, ok)

\* StreamEngine._on_bus_message
_on_bus_message(s, msg) ==
    IF msg = "EOS" THEN stop(s, TRUE) ELSE Emit(stop(s, TRUE), "error")

\* ------------------------------------------------------------------------
\* window.py
\* ------------------------------------------------------------------------

\* a thread that runs do_controls_then_stream, by its position in the function
NewWorker(c, cached, already) ==
    [pc |-> "spawned", cam |-> c, cached |-> cached, already |-> already,
     controls |-> FALSE, port |-> None]

\* the threads and completions that exist (the model bounds their number)
Threads(s) ==
    Len(s.workers)
    + Cardinality({i \in 1..Len(s.queue) : s.queue[i][1] = "on_done"})

\* run_async(do_controls_then_stream, on_success=on_done)
run_async_setup(s, c, cached, already) ==
    IF Threads(s) >= s.limit THEN [s EXCEPT !.overflow = TRUE]
    ELSE [s EXCEPT !.workers = Append(@, NewWorker(c, cached, already))]

\* variant: the selection handler never looks at the lock
LockNeverBusy(s) == FALSE

\* the test  self._streaming_lock.locked()  of _on_camera_selected
LockBusy(s) == s.lock

\* variant: the selection handler never takes the hot-swap path
HotSwapNever(already_streaming, cached) == FALSE

\* the hot-swap test of _on_camera_selected
HotSwap(already_streaming, cached) == already_streaming /\ cached

\* BigDigicamWindow._on_camera_selected
_on_camera_selected(s, c, adOk, ok) ==
    LET s0 == [s EXCEPT !.act = c]
    IN  IF needs_streaming_setup(c)
        THEN IF LockBusy(s0) THEN s0
             ELSE LET chk == is_camera_streaming([s0 EXCEPT !.hot = FALSE], c)
                      cached == CamId(chk.s.port, c) \in chk.s.cache
                  IN  IF HotSwap(chk.r, cached)
                      THEN play(stop(chk.s, FALSE), c, TRUE, adOk, ok)
                      ELSE run_async_setup(stop(chk.s, FALSE), c, cached, chk.r)
        ELSE LET old == s0.cur
                 s1 == play(stop(s0, FALSE), c, FALSE, adOk, ok)
             IN  IF old # None /\ BackendOf(old) # BackendOf(c)
                    /\ BackendOf(old) = "GPHOTO2"
                 THEN [s1 EXCEPT !.stops = @ \cup {old}]
                 ELSE s1

\* a sequence without its i-th element
RemoveAt(seq, i) == SubSeq(seq, 1, i - 1) \o SubSeq(seq, i + 1, Len(seq))

\* the worker returns: finally-release of the lock, GLib.idle_add(on_done, result)
WorkerReturn(s, w, success, release) ==
    [s EXCEPT !.workers = RemoveAt(@, w),
              !.lock = IF release THEN FALSE ELSE @,
              !.queue = Append(@, <<"on_done", s.workers[w].cam, success>>)]

\* the test  self._streaming_lock.acquire(blocking=False)  of the worker
TryAcquire(s) == ~s.lock

\* variant: the worker never fetches the controls
NeedControlsNever(controls) == FALSE

\* the test  if controls is None  of the worker
NeedControls(controls) == ~controls

\* do_controls_then_stream up to the first blocking driver call
do_controls_acquire(s, w) ==
    IF ~TryAcquire(s) THEN WorkerReturn(s, w, FALSE, FALSE)
    ELSE LET s1 == [s EXCEPT !.lock = TRUE, !.workers[w].controls = s.workers[w].cached]
         IN  IF NeedControls(s1.workers[w].controls)
             THEN [s1 EXCEPT !.workers[w].pc = "get_controls"]
             ELSE IF s1.workers[w].already THEN WorkerReturn(s1, w, TRUE, TRUE)
             ELSE [s1 EXCEPT !.workers[w].pc = "start_streaming"]

\* do_controls_then_stream: get_controls returned
do_controls_fetched(s, w, res, adOk) ==
    LET s1 == [get_controls(s, s.workers[w].cam, res, adOk)
                  EXCEPT !.workers[w].controls = TRUE]
    IN  IF s1.workers[w].already THEN WorkerReturn(s1, w, TRUE, TRUE)
        ELSE [s1 EXCEPT !.workers[w].pc = "start_streaming"]

\* do_controls_then_stream: backend.start_streaming(camera) up to the script
do_start_streaming(s, w, adOk) ==
    LET b == start_streaming_begin(s, s.workers[w].cam, adOk)
    IN  IF b.done THEN WorkerReturn(b.s, w, TRUE, TRUE)
        ELSE [b.s EXCEPT !.workers[w].pc = "script", !.workers[w].port = b.port]

\* how the streaming script may end: its exit code and whether its output has
\* a line that starts with SUCCESS:
ScriptOutcomes == {"zero_success", "zero_plain", "nonzero_success", "nonzero_plain"}
ExitZero(o) == o \in {"zero_success", "zero_plain"}
HasSuccessLine(o) == o \in {"zero_success", "nonzero_success"}

\* what start_streaming returns for the script's outcome o
ScriptResult(o) == ExitZero(o)

\* do_controls_then_stream: the script returned with outcome o
do_script_done(s, w, o) ==
    WorkerReturn(start_streaming_end(Call(s, "script_returned", o), s.workers[w].cam,
                                     s.workers[w].port, ScriptResult(o)),
                 w, ScriptResult(o), TRUE)

\* variant: on_done plays whatever the worker returned
SetupSucceededAlways(success) == TRUE

\* the test  if success:  of on_done
SetupSucceeded(success) == success

\* on_done of _on_camera_selected; on failure the preview shows the error
\* notification and the retry button
on_done(s, c, success, adOk, ok, enabled) ==
    LET s1 == IF SetupSucceeded(success)
              THEN play([s EXCEPT !.cache = @ \cup {CamId(s.port, c)}], c, TRUE, adOk, ok)
              ELSE Emit(s, "notify_error")
    IN  [s1 EXCEPT !.hot = IF enabled THEN TRUE ELSE @]

\* ------------------------------------------------------------------------
\* Actions of the session model
\* ------------------------------------------------------------------------

\* what building a pipeline or running the script may return in this environment
Outcomes == IF flaky THEN BOOLEAN ELSE {TRUE}

\* write a handler's result back to the variables
Commit(s, op, c) ==
    /\ ~s.overflow
    /\ current_camera' = s.cur
    /\ pipeline' = s.pipe
    /\ appsink_timer_id' = s.timer
    /\ appsink_retry_count' = s.retry
    /\ fps_timer_id' = s.fps
    /\ phone_server_ref' = s.phone
    /\ frame_callback' = s.cb
    /\ active_streams' = s.active
    /\ streaming_active' = s.sa
    /\ cam_port' = s.port
    /\ cam_udp' = s.udp
    /\ selector_cameras' = s.sel
    /\ helper_procs' = s.procs
    /\ session' = s.sess
    /\ play_errors' = s.errs
    /\ visible_state' = s.shown
    /\ active_camera' = s.act
    /\ streaming_lock' = s.lock
    /\ controls_cache' = s.cache
    /\ workers' = s.workers
    /\ stop_threads' = s.stops
    /\ hotplug_timer' = s.hot
    /\ idle_queue' = s.queue
    /\ last' = [op |-> op, cam |-> c, calls |-> s.calls, sigs |-> s.sigs]

\* the user picks camera c in the selector
SelectCamera(c) ==
    /\ ~closed
    /\ \E adOk, ok \in BOOLEAN :
          Commit(_on_camera_selected(AppState, c, adOk, ok), "select", c)
    /\ UNCHANGED <<capture_thread, closed, dev_port, cam_name, cfgVars, regVars>>

\* _on_retry, _on_virtual_camera_toggled, _on_resolution_changed,
\* _on_fps_limit_changed: stop(), then select the active camera again
RestartStream ==
    /\ ~closed
    /\ active_camera # None
    /\ \E adOk, ok \in BOOLEAN :
          Commit(_on_camera_selected(stop(AppState, TRUE), active_camera, adOk, ok),
                 "restart", active_camera)
    /\ UNCHANGED <<capture_thread, closed, dev_port, cam_name, cfgVars, regVars>>

\* a do_controls_then_stream thread tries the lock
WorkerAcquire(w) ==
    /\ ~closed
    /\ w \in 1..Len(workers)
    /\ workers[w].pc = "spawned"
    /\ Commit(do_controls_acquire(AppState, w), "worker_acquire", workers[w].cam)
    /\ UNCHANGED <<capture_thread, closed, dev_port, cam_name, cfgVars, regVars>>

\* get_controls returns in the worker
WorkerGetControls(w) ==
    /\ ~closed
    /\ w \in 1..Len(workers)
    /\ workers[w].pc = "get_controls"
    /\ \E res \in {"direct", "fallback"}, adOk \in BOOLEAN :
          Commit(do_controls_fetched(AppState, w, res, adOk),
                 "worker_get_controls", workers[w].cam)
    /\ UNCHANGED <<capture_thread, closed, dev_port, cam_name, cfgVars, regVars>>

\* the worker enters start_streaming
WorkerStartStreaming(w) ==
    /\ ~closed
    /\ w \in 1..Len(workers)
    /\ workers[w].pc = "start_streaming"
    /\ \E adOk \in BOOLEAN :
          Commit(do_start_streaming(AppState, w, adOk),
                 "worker_start_streaming", workers[w].cam)
    /\ UNCHANGED <<capture_thread, closed, dev_port, cam_name, cfgVars, regVars>>

\* the streaming script returns in the worker
WorkerScriptDone(w) ==
    /\ ~closed
    /\ w \in 1..Len(workers)
    /\ workers[w].pc = "script"
    /\ \E o \in ScriptOutcomes :
          Commit(do_script_done(AppState, w, o), "worker_script_done", workers[w].cam)
    /\ UNCHANGED <<capture_thread, closed, dev_port, cam_name, cfgVars, regVars>>

\* the main loop runs the oldest idle callback: on_done of a worker
OnDone ==
    /\ ~closed
    /\ idle_queue # <<>>
    /\ Head(idle_queue)[1] = "on_done"
    /\ LET w == Head(idle_queue)[2]
           s == [AppState EXCEPT !.queue = Tail(@)]
       IN  \E adOk \in BOOLEAN, ok \in Outcomes :
              Commit(on_done(s, w, Head(idle_queue)[3], adOk, ok, hotplug_enabled),
                     "on_done", w)
    /\ UNCHANGED <<capture_thread, closed, dev_port, cam_name, cfgVars, regVars>>

\* the thread started by  run_async(lambda: old_backend_obj.stop_streaming(old_camera))
StopThread(c) ==
    /\ ~closed
    /\ c \in stop_threads
    /\ Commit(stop_streaming([AppState EXCEPT !.stops = @ \ {c}], c), "stop_thread", c)
    /\ UNCHANGED <<capture_thread, closed, dev_port, cam_name, cfgVars, regVars>>

\* _do_native_capture on the main loop
NativeCapture ==
    /\ ~closed
    /\ active_camera # None
    /\ BackendOf(active_camera) = "GPHOTO2"
    /\ capture_thread = None
    /\ Commit(stop(AppState, TRUE), "native_capture", active_camera)
    /\ capture_thread' = active_camera
    /\ UNCHANGED <<closed, dev_port, cam_name, cfgVars, regVars>>

\* _capture_in_thread: backend.stop_streaming() with no camera, then the photo
\* (capture_photo's second attempt releases the USB device of the camera)
_capture_in_thread(s, c, retried) ==
    LET s1 == Call(stop_streaming(s, None), "capture_photo", c)
        s2 == IF retried THEN _release_usb_device(s1, s1.port[c]) ELSE s1
    IN  [s2 EXCEPT !.queue = Append(@, <<"capture_done", c>>)]

CaptureThread ==
    /\ ~closed
    /\ capture_thread # None
    /\ ~ \E i \in 1..Len(idle_queue) : idle_queue[i][1] = "capture_done"
    /\ \E retried \in BOOLEAN :
          Commit(_capture_in_thread(AppState, capture_thread, retried),
                 "capture_thread", capture_thread)
    /\ UNCHANGED <<capture_thread, closed, dev_port, cam_name, cfgVars, regVars>>

\* _on_done of _do_native_capture: resume streaming
CaptureDone ==
    /\ ~closed
    /\ idle_queue # <<>>
    /\ Head(idle_queue)[1] = "capture_done"
    /\ LET c == Head(idle_queue)[2]
           s == [AppState EXCEPT !.queue = Tail(@)]
       IN  \E adOk, ok \in BOOLEAN :
              Commit(_on_camera_selected(s, c, adOk, ok), "capture_done", c)
    /\ capture_thread' = None
    /\ UNCHANGED <<closed, dev_port, cam_name, cfgVars, regVars>>

\* the 2 s timer of _build_appsink_pipeline fires
AppsinkFirst ==
    /\ ~closed
    /\ appsink_timer_id = "first"
    /\ \E ok \in Outcomes :
          Commit(_try_appsink_first(AppState, ok), "try_appsink_first", current_camera)
    /\ UNCHANGED <<capture_thread, closed, dev_port, cam_name, cfgVars, regVars>>

\* the 500 ms timer fires: _try_appsink_pipeline is the callback
AppsinkRetry ==
    /\ ~closed
    /\ appsink_timer_id = "retry"
    /\ \E ok \in Outcomes :
          LET t == _try_appsink_pipeline(AppState, ok)
          IN  Commit([t.s EXCEPT !.timer = IF t.r THEN "retry" ELSE "none"],
                     "try_appsink_pipeline", current_camera)
    /\ UNCHANGED <<capture_thread, closed, dev_port, cam_name, cfgVars, regVars>>

\* the pipeline posts EOS or ERROR on its bus
BusMessage(msg) ==
    /\ ~closed
    /\ pipeline
    /\ Commit(_on_bus_message(AppState, msg), "bus_message", current_camera)
    /\ UNCHANGED <<capture_thread, closed, dev_port, cam_name, cfgVars, regVars>>

\* _cleanup_and_close: stop(), stop_hotplug()
CleanupAndClose ==
    /\ ~closed
    /\ Commit([stop(AppState, TRUE) EXCEPT !.hot = FALSE], "close", current_camera)
    /\ closed' = TRUE
    /\ UNCHANGED <<capture_thread, dev_port, cam_name, cfgVars, regVars>>

\* environment: a helper process dies
HelperDies(p) ==
    /\ ~closed
    /\ helper_procs[p] # None
    /\ Commit([AppState EXCEPT !.procs[p] = None], "helper_dies", None)
    /\ UNCHANGED <<capture_thread, closed, dev_port, cam_name, cfgVars, regVars>>

InitRegistryIdle ==
    /\ detecting = FALSE
    /\ cameras = <<>>
    /\ det_workers = <<>>
    /\ ip_cameras = <<>>
    /\ last_lsusb = ""
    /\ usb_checks = 0
    /\ usb = "f1"

\* the state after BigDigicamWindow.__init__, in an environment with the cameras
\* att attached, pipelines that may fail (fl) and at most lim setup threads
InitWindow(att, fl, lim) ==
    /\ active_camera = None
    /\ streaming_lock = FALSE
    /\ controls_cache = {}
    /\ workers = <<>>
    /\ stop_threads = {}
    /\ capture_thread = None
    /\ idle_queue = <<>>
    /\ closed = FALSE
    /\ current_camera = None
    /\ pipeline = FALSE
    /\ appsink_timer_id = "none"
    /\ appsink_retry_count = 0
    /\ fps_timer_id = FALSE
    /\ phone_server_ref = FALSE
    /\ frame_callback = FALSE
    /\ active_streams = [p \in Ports |-> None]
    /\ streaming_active = FALSE
    /\ dev_port = [c \in GCams |-> IF c = "g1" THEN "u1" ELSE "u2"]
    /\ cam_port = dev_port
    /\ cam_udp = [c \in GCams |-> IF c = "g1" THEN Channels[1] ELSE Channels[2]]
    /\ selector_cameras = [c \in GCams |-> SameObject]
    /\ cam_name = [c \in GCams |-> IF c = "g1" THEN "EOS" ELSE "D850"]
    /\ attached = att
    /\ flaky = fl
    /\ thread_limit = lim
    /\ hotplug_enabled = TRUE
    /\ hotplug_timer = hotplug_enabled
    /\ helper_procs = [p \in Ports |-> None]
    /\ session = "Idle"
    /\ play_errors = 0
    /\ visible_state = "stopped"
    /\ last = [op |-> "init", cam |-> None, calls |-> <<>>, sigs |-> <<>>]
    /\ InitRegistryIdle

\* BigDigicamWindow._do_phone_disconnect, the phone has not come back
_do_phone_disconnect(s) ==
    IF s.act # None /\ BackendOf(s.act) = "PHONE"
    THEN [stop(s, TRUE) EXCEPT !.act = None]
    ELSE s

\* the grace period after the phone's disconnection ends; the phone camera is
\* offered again as soon as the phone reconnects (_on_phone_connected)
PhoneDisconnect ==
    /\ ~closed
    /\ \E c \in PCams : c \in attached
    /\ Commit(_do_phone_disconnect(AppState), "phone_disconnect", None)
    /\ UNCHANGED <<capture_thread, closed, dev_port, cam_name, cfgVars, regVars>>

\* the do_controls_then_stream threads, one step of one of them
WorkerStep ==
    \E w \in 1..MaxWorkers :
        \/ WorkerAcquire(w)
        \/ WorkerGetControls(w)
        \/ WorkerStartStreaming(w)
        \/ WorkerScriptDone(w)

InitSession == InitWindow({"g1", "v1"}, FALSE, MaxWorkers)

NextSession ==
    \/ \E c \in attached : SelectCamera(c)
    \/ RestartStream
    \/ WorkerStep
    \/ OnDone
    \/ \E c \in GCams : StopThread(c)
    \/ AppsinkFirst
    \/ \E msg \in {"EOS", "ERROR"} : BusMessage(msg)
    \/ \E p \in Ports : HelperDies(p)

SpecSession == InitSession /\ [][NextSession]_vars

\* the session with its scheduling: a started thread goes on running, and the
\* main loop runs every idle callback that run_async has queued
SpecSessionFair == SpecSession /\ WF_vars(WorkerStep) /\ WF_vars(OnDone)

\* the retry loop of the appsink pipeline: one DSLR whose stream may not arrive
InitRetry == InitWindow({"g1"}, TRUE, MaxWorkers)

NextRetry ==
    \/ \E c \in attached : SelectCamera(c)
    \/ RestartStream
    \/ WorkerStep
    \/ OnDone
    \/ AppsinkFirst
    \/ AppsinkRetry
    \/ \E msg \in {"EOS", "ERROR"} : BusMessage(msg)
    \/ \E p \in Ports : HelperDies(p)

SpecRetry == InitRetry /\ [][NextRetry]_vars

\* two DSLRs, one setup thread at a time, native photo capture and closing
\* the window
InitCapture == InitWindow(GCams, FALSE, 1)

NextCapture ==
    \/ \E c \in attached : SelectCamera(c)
    \/ WorkerStep
    \/ OnDone
    \/ AppsinkFirst
    \/ NativeCapture
    \/ CaptureThread
    \/ CaptureDone
    \/ CleanupAndClose
    \/ \E p \in Ports : HelperDies(p)

SpecCapture == InitCapture /\ [][NextCapture]_vars

\* ------------------------------------------------------------------------
\* camera_manager.py and ip_backend.py
\* ------------------------------------------------------------------------

\* cameras one driver may report in one detection pass
MaxFound == 1

\* detection threads and pending completions that may exist at once
MaxPasses == 1

\* entries of the saved network-camera list
MaxIp == 2

\* CameraManager._register_backends: the drivers that are available on the
\* host, in registration order
Backends == <<"V4L2", "GPHOTO2", "IP">>

\* ids a detecting driver may report
DetIds == {<<"dev", "a">>, <<"dev", "b">>}

\* URLs the network-camera dialog may deliver (it rejects the empty one)
Urls == {"rtsp://a", "http://b"}

\* what one driver's detect_cameras may return
FoundLists == UNION {[1..n -> DetIds \cap attached] : n \in 0..MaxFound}

\* CameraInfo(id=..., backend=...)
CameraInfo(id, backend) == [id |-> id, backend |-> backend]

\* {c.id for c in cams}
IdsOf(cams) == {cams[i].id : i \in 1..Len(cams)}

\* the registry as one value
RegState ==
    [detecting |-> detecting, cameras |-> cameras, workers |-> det_workers,
     queue |-> idle_queue, ips |-> ip_cameras, lsusb |-> last_lsusb,
     checks |-> usb_checks, sigs |-> <<>>]

\* IPBackend.cameras_from_urls: id = "ip:" + url, empty URLs skipped
RECURSIVE cameras_from_urls(_)
cameras_from_urls(entries) ==
    IF entries = <<>> THEN <<>>
    ELSE (IF Head(entries) = "" THEN <<>>
          ELSE <<CameraInfo(<<"ip", Head(entries)>>, "IP")>>)
         \o cameras_from_urls(Tail(entries))

\* the index of the first driver from i on that is not the IP driver
RECURSIVE NextBackend(_)
NextBackend(i) ==
    IF i > Len(Backends) THEN i
    ELSE IF Backends[i] = "IP" THEN NextBackend(i + 1) ELSE i

\* the thread _worker of detect_cameras_async
NewDetWorker ==
    [pc |-> IF NextBackend(1) > Len(Backends) THEN "finish" ELSE "loop",
     idx |-> NextBackend(1), all |-> <<>>, seen |-> {}]

\* variant: detect_cameras_async without its guard
InProgressNever(d) == FALSE

\* the test  if self._detecting  of detect_cameras_async
InProgress(d) == d

\* CameraManager.detect_cameras_async
detect_cameras_async(r) ==
    IF InProgress(r.detecting) THEN r
    ELSE [r EXCEPT !.detecting = TRUE, !.workers = Append(@, NewDetWorker)]

\* variant: the merge keeps every camera it is given
NotSeenAlways(cam, seen_ids) == TRUE

\* the test  if cam.id not in seen_ids  of _worker
NotSeen(cam, seen_ids) == cam.id \notin seen_ids

\* _worker: the loop  for cam in found
RECURSIVE MergeFound(_, _)
MergeFound(acc, found) ==
    IF found = <<>> THEN acc
    ELSE MergeFound(IF NotSeen(Head(found), acc.seen)
                    THEN [all |-> Append(acc.all, Head(found)),
                          seen |-> acc.seen \cup {Head(found).id}]
                    ELSE acc,
                    Tail(found))

\* variant: a driver that raises discards what the pass has merged
OnDriverErrorDrop(wk) == [all |-> <<>>, seen |-> {}]

\* _worker: the  except Exception  clause keeps all_cameras and seen_ids
OnDriverError(wk) == [all |-> wk.all, seen |-> wk.seen]

\* _worker: one turn of  for b in self._backends ; found is what the driver
\* returned, raised says that it raised instead
detect_backend(r, w, found, raised) ==
    LET wk == r.workers[w]
        nxt == NextBackend(wk.idx + 1)
        acc == IF raised THEN OnDriverError(wk)
               ELSE MergeFound([all |-> wk.all, seen |-> wk.seen], found)
    IN  [r EXCEPT !.workers[w] = [pc |-> IF nxt > Len(Backends) THEN "finish" ELSE "loop",
                                  idx |-> nxt, all |-> acc.all, seen |-> acc.seen],
                  !.queue = IF raised THEN Append(@, <<"camera_error">>) ELSE @]

\* _worker:  self._detecting = False ; GLib.idle_add(self._on_detection_done,
\* all_cameras) ; the thread ends (nothing the thread does lies between the two
\* statements, and a request that falls between them has the effect of one
\* that follows them)
detect_finish(r, w) ==
    [r EXCEPT !.detecting = FALSE,
              !.workers = RemoveAt(@, w),
              !.queue = Append(@, <<"detection_done", r.workers[w].all>>)]

\* variant: the lists are compared instead of their id sets
ListsChanged(old, new) == old # new

\* the test  old_ids != new_ids  of _on_detection_done
IdsChanged(old, new) == IdsOf(old) # IdsOf(new)

\* CameraManager._on_detection_done
_on_detection_done(r, cams) ==
    [r EXCEPT !.cameras = cams,
              !.sigs = IF IdsChanged(r.cameras, cams)
                       THEN Append(@, "cameras-changed") ELSE @]

\* CameraManager.add_ip_cameras
add_ip_cameras(r, entries) ==
    [r EXCEPT !.cameras = SelectSeq(@, LAMBDA c : c.backend # "IP")
                          \o cameras_from_urls(entries),
              !.sigs = Append(@, "cameras-changed")]

\* BigDigicamWindow._on_ip_camera_added
_on_ip_camera_added(r, url) ==
    add_ip_cameras([r EXCEPT !.ips = Append(@, url)], Append(r.ips, url))

\* write a registry handler's result back to the variables
CommitReg(r, step) ==
    /\ detecting' = r.detecting
    /\ cameras' = r.cameras
    /\ det_workers' = r.workers
    /\ idle_queue' = r.queue
    /\ ip_cameras' = r.ips
    /\ last_lsusb' = r.lsusb
    /\ usb_checks' = r.checks
    /\ usb' = usb
    /\ last' = step @@ [cam |-> None, calls |-> <<>>, sigs |-> r.sigs]
    /\ UNCHANGED sessVars

\* _worker: the drivers whose detect_cameras the thread wk is inside of; the
\* loop  for b in self._backends  calls one driver at a time
RunningDrivers(wk) == IF wk.pc = "loop" THEN {wk.idx} ELSE {}

\* the auto-detecting drivers that have not yet returned to the thread wk
PendingDrivers(wk) == {i \in wk.idx..Len(Backends) : Backends[i] # "IP"}

\* _on_refresh, the start-up idle callback, the hotplug callback
DetectRequest ==
    /\ detecting \/ Len(det_workers) + Len(idle_queue) < MaxPasses
    /\ CommitReg(detect_cameras_async(RegState), [op |-> "detect_cameras_async"])

\* a detection thread asks its next driver
DetectBackend(w) ==
    /\ w \in 1..Len(det_workers)
    /\ det_workers[w].pc = "loop"
    /\ \E found \in FoundLists, raised \in BOOLEAN :
          LET cams == [i \in 1..Len(found) |->
                          CameraInfo(found[i], Backends[det_workers[w].idx])]
          IN  /\ raised => found = <<>>
              /\ CommitReg(detect_backend(RegState, w, cams, raised),
                           [op |-> "detect_backend", w |-> w, found |-> cams,
                            raised |-> raised])

DetectFinish(w) ==
    /\ w \in 1..Len(det_workers)
    /\ det_workers[w].pc = "finish"
    /\ CommitReg(detect_finish(RegState, w),
                 [op |-> "detect_finish", w |-> w,
                  pending |-> PendingDrivers(det_workers[w])])

\* the main loop runs the oldest idle callback: _on_detection_done
DetectionDone ==
    /\ idle_queue # <<>>
    /\ Head(idle_queue)[1] = "detection_done"
    /\ CommitReg(_on_detection_done([RegState EXCEPT !.queue = Tail(@)],
                                    Head(idle_queue)[2]),
                 [op |-> "on_detection_done"])

\* the main loop runs the oldest idle callback: emit("camera-error", str(exc))
CameraError ==
    /\ idle_queue # <<>>
    /\ Head(idle_queue)[1] = "camera_error"
    /\ CommitReg([RegState EXCEPT !.queue = Tail(@), !.sigs = <<"camera-error">>],
                 [op |-> "camera_error"])

\* the dialog delivers a network camera
IpCameraAdded(url) ==
    /\ Len(ip_cameras) < MaxIp
    /\ CommitReg(_on_ip_camera_added(RegState, url), [op |-> "on_ip_camera_added"])

\* BigDigicamWindow._on_save_profile: get_controls of the active camera on the
\* main loop (the controls of a webcam come from ioctls, without any helper)
SaveProfile ==
    /\ ~closed
    /\ active_camera # None
    /\ \E res \in {"direct", "fallback"}, adOk \in BOOLEAN :
          Commit(IF BackendOf(active_camera) = "GPHOTO2"
                 THEN get_controls(AppState, active_camera, res, adOk)
                 ELSE AppState,
                 "save_profile", active_camera)
    /\ UNCHANGED <<capture_thread, closed, dev_port, cam_name, cfgVars, regVars>>

\* one DSLR, its setup, its pipeline and the profile menu
InitProfile == InitWindow({"g1"}, FALSE, MaxWorkers)

NextProfile ==
    \/ \E c \in attached : SelectCamera(c)
    \/ WorkerStep
    \/ OnDone
    \/ AppsinkFirst
    \/ SaveProfile

SpecProfile == InitProfile /\ [][NextProfile]_vars

\* do_controls_then_stream: a driver call raises in _kill_gvfs, which runs
\* systemctl, pkill and gio outside every try block (FileNotFoundError when one
\* of them is not installed). get_controls raises before it has done anything;
\* start_streaming has set the flag and refreshed the port, and raises unless
\* it has returned for a port it has in its map. The worker's finally releases
\* the lock, and the except clause of run_async finds no on_error to queue
do_raise(s, w, adOk) ==
    LET c == s.workers[w].cam
        s1 == IF s.workers[w].pc = "get_controls"
              THEN Call(s, "get_controls", c)
              ELSE start_streaming_begin(s, c, adOk).s
    IN  [s1 EXCEPT !.workers = RemoveAt(@, w), !.lock = FALSE]

\* a driver call of the setup thread raises
WorkerRaises(w) ==
    /\ ~closed
    /\ w \in 1..Len(workers)
    /\ workers[w].pc \in {"get_controls", "start_streaming"}
    /\ \E adOk \in BOOLEAN :
          /\ workers[w].pc = "start_streaming"
                => ~start_streaming_begin(AppState, workers[w].cam, adOk).done
          /\ Commit(do_raise(AppState, w, adOk), "worker_raises", workers[w].cam)
    /\ UNCHANGED <<capture_thread, closed, dev_port, cam_name, cfgVars, regVars>>

\* one DSLR on a host where the tools of _kill_gvfs may be missing
InitSetupRaise == InitWindow({"g1"}, FALSE, MaxWorkers)

\* the setup thread runs: it takes its next step or a driver call raises
WorkerRun == WorkerStep \/ \E w \in 1..MaxWorkers : WorkerRaises(w)

NextSetupRaise ==
    \/ \E c \in attached : SelectCamera(c)
    \/ WorkerRun
    \/ OnDone
    \/ AppsinkFirst

\* a started thread goes on running, and the main loop runs every idle
\* callback that run_async has queued
SpecSetupRaise ==
    InitSetupRaise /\ [][NextSetupRaise]_vars /\ WF_vars(WorkerRun) /\ WF_vars(OnDone)

\* the phone bridge and one DSLR
InitPhone == InitWindow({"ph", "g1"}, FALSE, MaxWorkers)

NextPhone ==
    \/ \E c \in attached : SelectCamera(c)
    \/ RestartStream
    \/ WorkerStep
    \/ OnDone
    \/ AppsinkFirst
    \/ \E msg \in {"EOS", "ERROR"} : BusMessage(msg)
    \/ PhoneDisconnect

SpecPhone == InitPhone /\ [][NextPhone]_vars

InitRegistry == InitWindow(DetIds, FALSE, 0)

NextRegistry ==
    \/ DetectRequest
    \/ \E w \in 1..MaxPasses : DetectBackend(w)
    \/ \E w \in 1..MaxPasses : DetectFinish(w)
    \/ DetectionDone
    \/ CameraError
    \/ \E url \in Urls : IpCameraAdded(url)

SpecRegistry == InitRegistry /\ [][NextRegistry]_vars

\* ------------------------------------------------------------------------
\* Properties
\* ------------------------------------------------------------------------

\* the driver call name(c) was made in the step that l describes
InCalls(l, name, c) == \E i \in 1..Len(l.calls) : l.calls[i] = <<name, c>>

\* the positions of do_controls_then_stream between acquire and release
CriticalSection == {"get_controls", "start_streaming", "script"}

\* a play sequence for camera c is acquiring controls or starting the helper
InFlight(c) ==
    \E w \in 1..Len(workers) : workers[w].cam = c /\ workers[w].pc \in CriticalSection

C2_ControlsBeforeStreaming ==
    [][ \A c \in GCams :
           InCalls(last', "start_streaming", c)
           => /\ \E w \in 1..Len(workers) :
                    /\ workers[w].cam = c
                    /\ workers[w].pc = "start_streaming"
                    /\ workers[w].controls
              /\ ~InCalls(last', "get_controls", c)
      ]_vars

\* a play sequence fetched the controls of g1 and then started its helper
C2_Witness ==
    /\ last.op = "worker_script_done"
    /\ last.cam = "g1"
    /\ InCalls(last, "helper_started", "g1")
    /\ "u1" \notin controls_cache

\* an attempt to connect the appsink pipeline was just made
AttemptStep(l) == l.op \in {"try_appsink_first", "try_appsink_pipeline"}

\* the attempts of the current play ran out
Exhausted ==
    /\ session = "Started"
    /\ current_camera # None
    /\ BackendOf(current_camera) \in APPSINK_BACKENDS
    /\ ~pipeline
    /\ appsink_retry_count >= appsink_max_retries

\* C3: the attempts of one play never exceed appsink_max_retries; an attempt is
\* only made below the cap; once they ran out, exactly one "error" was emitted
\* since the play and no timer is pending
C3_BoundedRetry ==
    [][ /\ appsink_retry_count' <= appsink_max_retries
        /\ (AttemptStep(last') /\ current_camera # None)
           => /\ appsink_retry_count < appsink_max_retries
              /\ appsink_retry_count' = appsink_retry_count + 1
        /\ Exhausted' => (play_errors' = 1 /\ appsink_timer_id' = "none")
      ]_vars

\* the last permitted attempt just failed
C3_Witness ==
    /\ last.op = "try_appsink_pipeline"
    /\ Exhausted
    /\ last.sigs = <<"error">>

C5_IdempotentStop ==
    [][ (last'.op = "close" /\ session \in {"Idle", "Stopped"})
        => /\ engVars' = engVars
           /\ gpVars' = gpVars
           /\ helper_procs' = helper_procs
           /\ last'.sigs = <<>>
           /\ last'.calls = <<>>
      ]_vars

\* a step that stops a session: stop() in _do_native_capture and in
\* _cleanup_and_close, the driver stop in _capture_in_thread
StopStep(l) == l.op \in {"native_capture", "capture_thread", "close"}

\* C6: a step that stops the session of a camera (the engine's current camera,
\* or the camera being photographed) leaves the helper and the map entry of
\* every other DSLR as they were
C6_StopOnlyThatCamera ==
    [][ StopStep(last')
        => LET camera == IF last'.op = "capture_thread" THEN capture_thread
                         ELSE current_camera
           IN  \A d \in GCams :
                  d # camera
                  => /\ active_streams'[cam_port[d]] = active_streams[cam_port[d]]
                     /\ helper_procs'[cam_port[d]] = helper_procs[cam_port[d]]
      ]_vars

\* no two cameras of the list have the same id
NoDupIds(cams) ==
    \A i, j \in 1..Len(cams) : i # j => cams[i].id # cams[j].id

\* a is a prefix of b
IsPrefix(a, b) == Len(a) <= Len(b) /\ SubSeq(b, 1, Len(a)) = a

\* the first position of id in the list
FirstAt(cams, id) == CHOOSE i \in 1..Len(cams) :
    cams[i].id = id /\ \A j \in 1..(i - 1) : cams[j].id # id

\* C7: the list a detection pass merges never holds an id twice: each driver's
\* cameras are appended in order, except those whose id the list already
\* holds, so the first occurrence stays; the list handed to
\* _on_detection_done is that list
C7_MergeDedup ==
    [][ /\ last'.op = "detect_backend"
           => LET before == det_workers[last'.w].all
                  after == det_workers'[last'.w].all
                  found == last'.found
              IN  /\ NoDupIds(after)
                  /\ IsPrefix(before, after)
                  /\ IdsOf(after) = IdsOf(before) \cup IdsOf(found)
                  /\ \A k \in (Len(before) + 1)..Len(after) :
                        after[k] = found[FirstAt(found, after[k].id)]
                  /\ \A k, m \in (Len(before) + 1)..Len(after) :
                        k < m => FirstAt(found, after[k].id) < FirstAt(found, after[m].id)
        /\ \A i \in 1..Len(idle_queue') :
              idle_queue'[i][1] = "detection_done" => NoDupIds(idle_queue'[i][2])
      ]_vars

\* a later driver just reported an id that an earlier driver had reported, and
\* the earlier driver's camera is the one in the list
C7_Witness ==
    /\ last.op = "detect_backend"
    /\ \E i \in 1..Len(last.found), j \in 1..Len(det_workers[last.w].all) :
          /\ det_workers[last.w].all[j].id = last.found[i].id
          /\ det_workers[last.w].all[j].backend # last.found[i].backend

C9_ChangedIffIdsDiffer ==
    [][ last'.op = "on_detection_done"
        => /\ cameras' = Head(idle_queue)[2]
           /\ (last'.sigs = <<"cameras-changed">>) <=> (IdsOf(cameras') # IdsOf(cameras))
           /\ (last'.sigs = <<>>) <=> (IdsOf(cameras') = IdsOf(cameras))
      ]_vars

\* a pass just completed with the ids of the previous snapshot: nothing emitted
C9_Witness ==
    /\ last.op = "on_detection_done"
    /\ last.sigs = <<>>
    /\ Len(cameras) = 2

\* the detection threads: each is in its pass until it clears _detecting
RunningPasses(ws) == {w \in 1..Len(ws) : ws[w].pc \in {"loop", "finish"}}

\* C10: detect_cameras_async called while a pass is in progress starts no
\* thread, queues nothing and changes nothing; at most one pass is running
C10_DetectReentrancy ==
    [][ /\ (last'.op = "detect_cameras_async" /\ detecting)
           => /\ det_workers' = det_workers
              /\ idle_queue' = idle_queue
              /\ detecting' = detecting
              /\ cameras' = cameras
        /\ Cardinality(RunningPasses(det_workers')) <= 1
      ]_vars

\* a request was just made while the running pass had already asked a driver
C10_Witness ==
    /\ last.op = "detect_cameras_async"
    /\ detecting
    /\ Len(det_workers) = 1
    /\ det_workers[1].pc = "loop"
    /\ det_workers[1].idx > 1

\* ------------------------------------------------------------------------
\* camera_manager.py: hotplug polling
\* ------------------------------------------------------------------------

\* what lsusb may print
Fingerprints == {"f1", "f2"}

\* variant: every poll counts as a change
FingerprintAlwaysChanged(current, previous) == TRUE

\* the test  current != self._last_lsusb  of _check_usb
FingerprintChanged(current, previous) == current # previous

\* CameraManager._poll_hotplug: the timer callback starts a _check_usb thread
\* unless a pass is in progress
_poll_hotplug(r) ==
    IF r.detecting THEN r ELSE [r EXCEPT !.checks = @ + 1]

\* _check_usb: current is what lsusb printed, failed says that running it raised
_check_usb(r, current, failed) ==
    LET r1 == [r EXCEPT !.checks = @ - 1]
    IN  IF ~failed /\ FingerprintChanged(current, r.lsusb)
        THEN [r1 EXCEPT !.lsusb = current,
                        !.queue = Append(@, <<"detect_request">>)]
        ELSE r1

\* the callbacks GLib.idle_add(self.detect_cameras_async) not yet run
PendingRequests(queue) ==
    Cardinality({i \in 1..Len(queue) : queue[i][1] = "detect_request"})

\* the hotplug timer fires
PollHotplug ==
    /\ hotplug_timer
    /\ detecting \/ usb_checks + PendingRequests(idle_queue) < MaxPasses
    /\ CommitReg(_poll_hotplug(RegState), [op |-> "poll_hotplug"])

\* a _check_usb thread runs lsusb and compares
CheckUsb ==
    /\ usb_checks > 0
    /\ \E failed \in BOOLEAN :
          CommitReg(_check_usb(RegState, usb, failed),
                    [op |-> "check_usb", failed |-> failed])

\* the main loop runs the oldest idle callback: detect_cameras_async
HotplugDetect ==
    /\ idle_queue # <<>>
    /\ Head(idle_queue)[1] = "detect_request"
    /\ CommitReg(detect_cameras_async([RegState EXCEPT !.queue = Tail(@)]),
                 [op |-> "hotplug_detect"])

\* environment: a USB device is plugged in or removed
UsbChange ==
    /\ \E f \in Fingerprints : f # usb /\ usb' = f
    /\ last' = [op |-> "usb_change", cam |-> None, calls |-> <<>>, sigs |-> <<>>]
    /\ UNCHANGED <<sessVars, detecting, cameras, det_workers, ip_cameras, last_lsusb,
                   usb_checks, idle_queue>>

NextHotplug ==
    \/ DetectRequest
    \/ \E w \in 1..MaxPasses : DetectBackend(w)
    \/ \E w \in 1..MaxPasses : DetectFinish(w)
    \/ DetectionDone
    \/ CameraError
    \/ PollHotplug
    \/ CheckUsb
    \/ HotplugDetect
    \/ UsbChange

\* one camera attached; other USB devices come and go
InitHotplug == InitWindow({<<"dev", "a">>}, FALSE, 0)

SpecHotplug == InitHotplug /\ [][NextHotplug]_vars

\* ------------------------------------------------------------------------
\* ip_backend.py, ip_camera_dialog.py: network cameras by URL
\* ------------------------------------------------------------------------

\* the URLs a settings file or the dialog's entry row may hold
AllUrls == Urls \cup {"javascript:alert(1)", ""}

\* urlparse(url).scheme
SchemeOf(url) ==
    CASE url = "rtsp://a" -> "rtsp"
      [] url = "http://b" -> "http"
      [] url = "javascript:alert(1)" -> "javascript"
      [] OTHER -> ""

_ALLOWED_SCHEMES == {"rtsp", "rtsps", "http", "https"}

\* camera.device_path.startswith("rtsp")
StartsWithRtsp(url) == url \in {"rtsp://a"}

\* IPCameraDialog._on_add: whether "camera-added" is emitted for the URL typed
_on_add(url) == url # "" /\ SchemeOf(url) \in _ALLOWED_SCHEMES

\* IPBackend.get_gst_source: the element and the location of the descriptor
get_gst_source(camera) ==
    IF StartsWithRtsp(camera.id[2]) THEN <<"rtspsrc", camera.id[2]>>
    ELSE <<"souphttpsrc", camera.id[2]>>

\* what settings.json may hold under "ip_cameras"
SavedLists == UNION {[1..n -> AllUrls] : n \in 0..MaxIp}

\* SettingsManager._load, run once by the constructor
LoadSettings ==
    /\ last.op = "init"
    /\ \E saved \in SavedLists :
          CommitReg([RegState EXCEPT !.ips = saved], [op |-> "load"])

\* the Add button of the network-camera dialog
DialogAdd(url) ==
    IF _on_add(url)
    THEN IpCameraAdded(url)
    ELSE CommitReg(RegState, [op |-> "on_add_rejected", url |-> url])

\* StreamEngine.play asks the driver for the source of a network camera
GetGstSource(i) ==
    /\ i \in 1..Len(cameras)
    /\ cameras[i].backend = "IP"
    /\ CommitReg(RegState, [op |-> "get_gst_source", i |-> i,
                            src |-> get_gst_source(cameras[i])])

NextIpDriver ==
    \/ LoadSettings
    \/ \E url \in AllUrls : DialogAdd(url)
    \/ \E i \in 1..MaxIp : GetGstSource(i)

SpecIpDriver == InitRegistry /\ [][NextIpDriver]_vars

\* ------------------------------------------------------------------------
\* gphoto2_backend.py: what the driver calls return when the tool fails
\* ------------------------------------------------------------------------

\* how a run of an external tool may end
ToolOutcomes == {"zero", "nonzero", "missing", "timeout"}

\* subprocess.run(..., check=check, timeout=... if timed): the return code, the
\* exception raised, or "hang" for a tool that never ends and has no timeout
SubprocessRun(outcome, check, timed) ==
    CASE outcome = "zero" -> "rc0"
      [] outcome = "nonzero" -> IF check THEN "CalledProcessError" ELSE "rc1"
      [] outcome = "missing" -> "FileNotFoundError"
      [] outcome = "timeout" -> IF timed THEN "TimeoutExpired" ELSE "hang"

\* GPhoto2Backend.set_control: the value returned, or "raise"
set_control(outcome) ==
    LET r == SubprocessRun(outcome, TRUE, TRUE)
    IN  IF r = "rc0" THEN "True"
        ELSE IF r \in {"CalledProcessError", "FileNotFoundError"} THEN "False"
        ELSE "raise"

\* GPhoto2Backend.get_controls: _kill_gvfs runs outside the try block (gvfs is
\* how its tools end), --list-all-config inside it
get_controls_returns(gvfs, outcome) ==
    LET k == SubprocessRun(gvfs, FALSE, FALSE)
        r == SubprocessRun(outcome, FALSE, TRUE)
    IN  IF k = "FileNotFoundError" THEN "raise"
        ELSE IF k = "hang" THEN "hang"
        ELSE IF r = "rc0" THEN "controls"
        ELSE "empty"

ControlIds == {"iso", "aperture", "whitebalance"}
ControlValues == {"0", "1", "2"}

\* the controls page sets a control of a DSLR
SetControl(c, ctl, value) ==
    /\ \E outcome \in ToolOutcomes :
          last' = [op |-> "set_control", cam |-> c, calls |-> <<<<ctl, value>>>>,
                   sigs |-> <<>>, outcome |-> outcome, result |-> set_control(outcome)]
    /\ UNCHANGED <<sessVars, regVars, idle_queue>>

\* a caller asks a DSLR for its controls
GetControls(c) ==
    /\ \E gvfs \in ToolOutcomes, outcome \in ToolOutcomes :
          last' = [op |-> "get_controls", cam |-> c, calls |-> <<>>, sigs |-> <<>>,
                   gvfs |-> gvfs, outcome |-> outcome,
                   result |-> get_controls_returns(gvfs, outcome)]
    /\ UNCHANGED <<sessVars, regVars, idle_queue>>

NextDriverCalls ==
    \/ \E c \in GCams, ctl \in ControlIds, value \in ControlValues : SetControl(c, ctl, value)
    \/ \E c \in GCams : GetControls(c)

SpecDriverCalls == InitCapture /\ [][NextDriverCalls]_vars

\* ------------------------------------------------------------------------
\* stream_engine.py: who holds a busy device
\* ------------------------------------------------------------------------

\* the processes fuser may list: this application and two others
OwnPid == "self"
Pids == {OwnPid, "p1", "p2"}

\* the content of /proc/<pid>/comm
CommOf(pid) == IF pid = "p1" THEN "obs" ELSE "python3"

\* what fuser may print: the holders, each once, in any order
FuserOutputs ==
    {pids \in UNION {[1..n -> Pids] : n \in 0..Cardinality(Pids)} :
        \A i, j \in 1..Len(pids) : i # j => pids[i] # pids[j]}

\* the loop of _find_device_users: names of the listed processes that still
\* exist, each name once, in fuser's order
RECURSIVE NamesOf(_, _, _)
NamesOf(pids, exists, names) ==
    IF pids = <<>> THEN names
    ELSE LET name == CommOf(Head(pids))
         IN  NamesOf(Tail(pids), exists,
                     IF Head(pids) \in exists /\ \A i \in 1..Len(names) : names[i] # name
                     THEN Append(names, name) ELSE names)

\* _find_device_users: failed says that running fuser raised
_find_device_users(pids, exists, failed) ==
    IF failed THEN <<>> ELSE NamesOf(pids, exists, <<>>)

\* _on_bus_message asks who holds the device of a busy camera
FindDeviceUsers ==
    /\ \E pids \in FuserOutputs, gone \in SUBSET (Pids \ {OwnPid}), failed \in BOOLEAN :
          last' = [op |-> "find_device_users", cam |-> None, calls |-> <<>>,
                   sigs |-> <<>>, pids |-> pids, exists |-> Pids \ gone,
                   failed |-> failed,
                   users |-> _find_device_users(pids, Pids \ gone, failed)]
    /\ UNCHANGED <<sessVars, regVars, idle_queue>>

NextBusy == FindDeviceUsers

SpecBusy == InitSession /\ [][NextBusy]_vars

\* ------------------------------------------------------------------------
\* gphoto2_backend.py: the attempts of get_controls
\* ------------------------------------------------------------------------

\* delays = [0, 3, 5]
Delays == <<0, 3, 5>>

\* how one run of gphoto2 --list-all-config may end: output with exit code 0,
\* a non-zero exit code or no output, or no end within its timeout
AttemptOutcomes == {"ok", "fail", "timeout"}

\* the rest of get_controls once an attempt has output: hasPaths says whether
\* a line of it starts with "/"
ParseConfig(trace, hasPaths) ==
    [trace |-> trace, result |-> IF hasPaths THEN "controls" ELSE "empty"]

\* the for loop of get_controls from attempt i on, then its else branch; outs[k]
\* is the outcome of the k-th run; a run that raises leaves through the
\* except clause at the end of the method
RECURSIVE AttemptLoop(_, _, _, _)
AttemptLoop(i, outs, hasPaths, trace) ==
    IF i > Len(Delays)
    THEN LET t == trace \o <<<<"refresh_port", 0>>, <<"release", 0>>,
                             <<"attempt", i>>>>
         IN  IF outs[i] = "ok" THEN ParseConfig(t, hasPaths)
             ELSE [trace |-> t, result |-> "empty"]
    ELSE LET t1 == IF Delays[i] # 0
                   THEN trace \o <<<<"sleep", Delays[i]>>, <<"release", 0>>>>
                   ELSE trace
             t2 == Append(t1, <<"attempt", i>>)
         IN  IF outs[i] = "timeout" THEN [trace |-> t2, result |-> "empty"]
             ELSE IF outs[i] = "ok" THEN ParseConfig(t2, hasPaths)
             ELSE AttemptLoop(i + 1, outs, hasPaths, t2)

\* GPhoto2Backend.get_controls: what it does and what it returns
get_controls_attempts(outs, hasPaths) ==
    AttemptLoop(1, outs, hasPaths, <<<<"release", 0>>>>)

\* a caller asks a DSLR for its controls; the runs end as outs says
DiscoverControls ==
    /\ \E outs \in [1..Len(Delays) + 1 -> AttemptOutcomes], hasPaths \in BOOLEAN :
          LET r == get_controls_attempts(outs, hasPaths)
          IN  last' = [op |-> "discover_controls", cam |-> None, calls |-> <<>>,
                       sigs |-> <<>>, outs |-> outs, hasPaths |-> hasPaths,
                       trace |-> r.trace, result |-> r.result]
    /\ UNCHANGED <<sessVars, regVars, idle_queue>>

NextDiscovery == DiscoverControls

SpecDiscovery == InitSession /\ [][NextDiscovery]_vars

\* ------------------------------------------------------------------------
\* gphoto2_backend.py: the batched reads of get_controls
\* ------------------------------------------------------------------------

\* _BATCH_SIZE (50 in the driver), scaled down
BatchSize == 2

\* the most config paths --list-all-config prints
MaxPaths == 4

\* how one batched run of gphoto2 --get-config ... may end
BatchOutcomes == {"ok", "nonzero", "timeout"}

\* range(0, len(config_paths), _BATCH_SIZE): the number of batches of n paths
NumBatches(n) == (n + BatchSize - 1) \div BatchSize

\* config_paths[start : start + _BATCH_SIZE], by the positions of the paths
BatchAt(start, n) ==
    [i \in 1..(IF start + BatchSize - 1 <= n THEN BatchSize ELSE n - start + 1)
        |-> start + i - 1]

\* GPhoto2Backend._read_single_config for each path of the batch: a path whose
\* read fails (non-zero exit, timeout, any exception) gives None and is left out
ReadSingles(batch, bad) == SelectSeq(batch, LAMBDA q : q \notin bad)

\* the loop  for start in range(0, len(config_paths), self._BATCH_SIZE)  of
\* get_controls: a batch that ends with a non-zero exit code is read path by
\* path; a batch that does not end within its timeout raises TimeoutExpired,
\* which leaves the loop through  except Exception  with what was read so far
RECURSIVE ReadBatches(_, _, _, _, _)
ReadBatches(start, n, bad, outs, controls) ==
    IF start > n THEN controls
    ELSE LET batch == BatchAt(start, n)
             o == outs[(start - 1) \div BatchSize + 1]
         IN  IF o = "timeout" THEN controls
             ELSE ReadBatches(start + BatchSize, n, bad, outs,
                              controls \o (IF o = "nonzero"
                                           THEN ReadSingles(batch, bad)
                                           ELSE batch))

\* a caller asks a DSLR with n config paths for its controls; the paths in bad
\* cannot be read, and a batch with such a path does not end with exit code 0
ReadControls ==
    /\ \E n \in 1..MaxPaths :
          \E bad \in SUBSET (1..n), outs \in [1..NumBatches(n) -> BatchOutcomes] :
             /\ \A b \in 1..NumBatches(n) :
                   outs[b] = "ok"
                   => \A i \in 1..Len(BatchAt((b - 1) * BatchSize + 1, n)) :
                         BatchAt((b - 1) * BatchSize + 1, n)[i] \notin bad
             /\ last' = [op |-> "read_controls", cam |-> None, calls |-> <<>>,
                         sigs |-> <<>>, n |-> n, bad |-> bad, outs |-> outs,
                         controls |-> ReadBatches(1, n, bad, outs, <<>>)]
    /\ UNCHANGED <<sessVars, regVars, idle_queue>>

NextBatches == ReadControls

SpecBatches == InitSession /\ [][NextBatches]_vars

\* ------------------------------------------------------------------------
\* window.py, camera_selector.py: the first "cameras-changed" after start-up
\* ------------------------------------------------------------------------

\* camera ids a first detection pass may report
StartIds == {"id_a", "id_b", "id_c"}

\* the longest list the first pass reports
MaxCams == 3

\* the lists without duplicate ids that _on_detection_done may install
StartLists ==
    {l \in UNION {[1..k -> StartIds] : k \in 1..MaxCams} :
        \A i, j \in 1..Len(l) : i # j => l[i] # l[j]}

\* the first lines of _on_camera_selected: the camera becomes the active one
\* and its id is written to the setting "last-camera-id"
remember_selected(w, cam) ==
    [w EXCEPT !.active = cam, !.last_id = cam, !.started = Append(@, cam)]

\* CameraSelector._on_cameras_changed at start-up (no camera was on offer):
\* the dropdown is filled and set_selected(0) is called; notified says whether
\* the dropdown, whose selection goes from none to the first row, emits
\* notify::selected, on which _on_selected emits "camera-selected" with
\* self._cameras[0] and the window runs _on_camera_selected
selector_on_cameras_changed(w, cams, notified) ==
    IF notified THEN remember_selected(w, cams[1]) ELSE w

\* BigDigicamWindow._on_cameras_changed_auto_start
_on_cameras_changed_auto_start(w, cams) ==
    IF w.active = None /\ cams # <<>>
    THEN LET hit == {i \in 1..Len(cams) : w.last_id # "" /\ cams[i] = w.last_id}
         IN  remember_selected(w, IF hit # {} THEN cams[CHOOSE i \in hit : TRUE]
                                  ELSE cams[1])
    ELSE w

\* the signal "cameras-changed" of the first pass that found cameras: its
\* handlers run in the order they were connected, the selector's (connected in
\* CameraSelector.__init__) before the window's (_connect_signals)
FirstCamerasChanged ==
    /\ \E cams \in StartLists, saved \in StartIds \cup {""}, notified \in BOOLEAN :
          LET w0 == [active |-> None, last_id |-> saved, started |-> <<>>]
              w1 == selector_on_cameras_changed(w0, cams, notified)
              w2 == _on_cameras_changed_auto_start(w1, cams)
          IN  last' = [op |-> "first_cameras_changed", cam |-> None, calls |-> <<>>,
                       sigs |-> <<"cameras-changed">>, cams |-> cams, saved |-> saved,
                       notified |-> notified, active |-> w2.active,
                       last_id |-> w2.last_id, started |-> w2.started]
    /\ UNCHANGED <<sessVars, regVars, idle_queue>>

NextAutoStart == FirstCamerasChanged

SpecAutoStart == InitSession /\ [][NextAutoStart]_vars

\* ------------------------------------------------------------------------
\* settings_manager.py: set and get
\* ------------------------------------------------------------------------

\* a Python value: its type and what it prints as, piece by piece
PyBool(b) == [kind |-> "bool", items |-> <<IF b THEN "True" ELSE "False">>]
PyInt(digits) == [kind |-> "int", items |-> <<digits>>]
PyStr(text) == [kind |-> "str", items |-> <<text>>]
PyList(entries) == [kind |-> "list", items |-> entries]

\* _DEFAULTS, for the keys the window and the registry use
_DEFAULTS ==
    [k \in {"window-width", "fps-limit", "show_fps", "hotplug_enabled",
            "virtual-camera-enabled", "theme", "last-camera-id", "ip_cameras"} |->
        CASE k = "window-width" -> PyInt("1100")
          [] k = "fps-limit" -> PyInt("0")
          [] k \in {"show_fps", "hotplug_enabled"} -> PyBool(TRUE)
          [] k = "virtual-camera-enabled" -> PyBool(FALSE)
          [] k = "theme" -> PyStr("system")
          [] k = "last-camera-id" -> PyStr("")
          [] OTHER -> PyList(<<>>)]

\* the values a caller may write
SettingValues ==
    {PyBool(b) : b \in BOOLEAN}
    \cup {PyInt(d) : d \in {"0", "1", "30"}}
    \cup {PyStr(x) : x \in {"", "30", "yes", "no", "dark"}}
    \cup {PyList(l) : l \in UNION {[1..k -> Urls] : k \in 0..MaxIp}}

_BOOL_TRUE == {"true", "1", "yes"}
_BOOL_FALSE == {"false", "0", "no", ""}

\* str.lower() on the texts above
Lower(x) == x

\* bool(value)
PyTruth(v) ==
    CASE v.kind = "bool" -> v.items[1] = "True"
      [] v.kind = "int" -> v.items[1] # "0"
      [] v.kind = "str" -> v.items[1] # ""
      [] OTHER -> v.items # <<>>

\* str(value): the text of a string is itself, that of a list is its repr
StrOf(v) ==
    IF v.kind = "list" THEN [kind |-> "str", items |-> <<"[">> \o v.items \o <<"]">>]
    ELSE [kind |-> "str", items |-> v.items]

\* int(value); "raise" for a text that is no number and for a list
IntOf(v) ==
    CASE v.kind = "int" -> v
      [] v.kind = "bool" -> PyInt(IF PyTruth(v) THEN "1" ELSE "0")
      [] v.kind = "str" /\ v.items[1] \in {"0", "1", "30"} -> PyInt(v.items[1])
      [] OTHER -> PyStr("raise")

\* SettingsManager.get(key) on the dictionary data: the stored value coerced
\* to the type of the key's default
get(data, key) ==
    LET fallback == _DEFAULTS[key]
        value == IF key \in DOMAIN data THEN data[key] ELSE fallback
    IN  IF fallback.kind = "bool"
        THEN IF value.kind = "bool" THEN value
             ELSE IF value.kind = "str" /\ Lower(value.items[1]) \in _BOOL_TRUE
                  THEN PyBool(TRUE)
             ELSE IF value.kind = "str" /\ Lower(value.items[1]) \in _BOOL_FALSE
                  THEN PyBool(FALSE)
             ELSE PyBool(PyTruth(value))
        ELSE IF fallback.kind = "int"
        THEN IF IntOf(value) = PyStr("raise") THEN fallback ELSE IntOf(value)
        ELSE StrOf(value)

\* SettingsManager.set(key, value)
set(data, key, value) ==
    [k \in DOMAIN data \cup {key} |-> IF k = key THEN value ELSE data[k]]

\* a caller writes a value and reads the key back
SetThenGet ==
    /\ \E key \in DOMAIN _DEFAULTS, value \in SettingValues :
          last' = [op |-> "set_get", cam |-> None, calls |-> <<>>, sigs |-> <<>>,
                   key |-> key, value |-> value,
                   got |-> get(set(<<>>, key, value), key)]
    /\ UNCHANGED <<sessVars, regVars, idle_queue>>

NextSettings == SetThenGet

SpecSettings == InitSession /\ [][NextSettings]_vars

\* ------------------------------------------------------------------------
\* gphoto2_backend.py, camera_selector.py: the UDP channel of a DSLR
\* ------------------------------------------------------------------------

\* the position of a DSLR's line in the output of gphoto2 --auto-detect
LineOf(c) == CHOOSE i \in 1..Len(AutoDetect) : AutoDetect[i] = dev_port[c]

\* the port (and with it the id) of the object the selector offers for a DSLR
OfferedPort(c) ==
    IF selector_cameras[c].new THEN selector_cameras[c].port ELSE cam_port[c]

\* GPhoto2Backend.detect_cameras: the cached list while _streaming_active is
\* set; otherwise one new CameraInfo per listed line, its port and id from the
\* line and its channel  _UDP_PORT + len(cameras)  from the line's position
gphoto_detect_cameras ==
    IF streaming_active
    THEN selector_cameras
    ELSE [c \in GCams |->
            [new |-> TRUE, port |-> dev_port[c], udp |-> Channels[LineOf(c)]]]

\* environment: a DSLR is unplugged and plugged in again; the bus gives it the
\* next device number, and the helper that was reading it loses the device
Replug(c, p) ==
    /\ ~closed
    /\ \A d \in GCams : \A i, j \in 1..Len(PortOrder) :
          (PortOrder[i] = dev_port[d] /\ PortOrder[j] = p) => i < j
    /\ dev_port' = [dev_port EXCEPT ![c] = p]
    /\ helper_procs' = [helper_procs EXCEPT ![dev_port[c]] = None]
    /\ last' = [op |-> "replug", cam |-> c, calls |-> <<>>, sigs |-> <<>>]
    /\ UNCHANGED <<winVars, engVars, gpVars, cam_name, cfgVars, obsVars, regVars,
                   hotplug_timer, idle_queue>>

\* a detection pass over the DSLR driver: when the ids found differ from those
\* on offer, _on_detection_done emits "cameras-changed" and
\* CameraSelector._on_cameras_changed replaces its objects by the new ones
DetectGphoto ==
    /\ ~closed
    /\ LET found == gphoto_detect_cameras
           changed == {found[c].port : c \in GCams} # {OfferedPort(c) : c \in GCams}
       IN  /\ selector_cameras' = IF changed /\ ~streaming_active
                                  THEN found ELSE selector_cameras
           /\ last' = [op |-> "detect_gphoto", cam |-> None, calls |-> <<>>,
                       sigs |-> IF changed /\ ~streaming_active
                                THEN <<"cameras-changed">> ELSE <<>>]
    /\ UNCHANGED <<active_camera, streaming_lock, controls_cache, workers,
                   stop_threads, capture_thread, closed, engVars, gpVars, envVars,
                   cfgVars, obsVars, regVars, hotplug_timer, idle_queue>>

\* the object the selector hands to _on_camera_selected becomes the one the
\* window holds
TakeOffered(s, c) ==
    IF c \in GCams /\ s.sel[c].new
    THEN [s EXCEPT !.port[c] = s.sel[c].port, !.udp[c] = s.sel[c].udp,
                   !.sel[c] = SameObject]
    ELSE s

\* the user picks a camera in the dropdown; a new object is picked while no
\* thread holds the object it replaces
SelectOffered(c) ==
    /\ ~closed
    /\ (c \in GCams /\ selector_cameras[c].new)
          => (workers = <<>> /\ stop_threads = {} /\ capture_thread = None)
    /\ \E adOk, ok \in BOOLEAN :
          Commit(_on_camera_selected(TakeOffered(AppState, c), c, adOk, ok),
                 "select", c)
    /\ UNCHANGED <<capture_thread, closed, dev_port, cam_name, cfgVars, regVars>>

\* two DSLRs, one setup thread at a time; with no camera of another driver
\* attached the window never starts a thread for stop_streaming
InitChannels == InitWindow({"g1", "g2"}, FALSE, 1)

NextChannels ==
    \/ \E c \in attached : SelectOffered(c)
    \/ WorkerStep
    \/ OnDone
    \/ AppsinkFirst
    \/ \E c \in GCams, p \in Ports : Replug(c, p)
    \/ DetectGphoto

SpecChannels == InitChannels /\ [][NextChannels]_vars

\* C11: when a driver's detect_cameras raises, a camera-error callback is
\* queued and later emitted as the signal "camera-error", the pass keeps what
\* it has merged and goes on to the next driver, and what the pass hands to
\* _on_detection_done is the merged list, which becomes the registry's list
C11_DetectionErrorIsolated ==
    [][ /\ (last'.op = "detect_backend" /\ last'.raised)
           => LET wk == det_workers[last'.w]
                  wk2 == det_workers'[last'.w]
              IN  /\ wk2.all = wk.all
                  /\ wk2.seen = wk.seen
                  /\ wk2.idx = NextBackend(wk.idx + 1)
                  /\ idle_queue' = Append(idle_queue, <<"camera_error">>)
                  /\ detecting' = detecting
                  /\ cameras' = cameras
        /\ last'.op = "camera_error"
           => /\ last'.sigs = <<"camera-error">>
              /\ UNCHANGED <<detecting, cameras, det_workers>>
        /\ last'.op = "detect_finish"
           => idle_queue' = Append(idle_queue,
                                   <<"detection_done", det_workers[last'.w].all>>)
        /\ last'.op = "on_detection_done" => cameras' = Head(idle_queue)[2]
      ]_vars

\* a pass in which one driver raised has just handed over the camera that the
\* other driver reported
C11_Witness ==
    /\ last.op = "detect_finish"
    /\ Len(idle_queue) = 2
    /\ idle_queue[1] = <<"camera_error">>
    /\ idle_queue[2][1] = "detection_done"
    /\ Len(idle_queue[2][2]) = 1

\* C12: a _check_usb thread that finds the fingerprint it stored queues nothing
\* and changes neither the registry nor the stored fingerprint; one that finds
\* another fingerprint stores it and queues exactly one detect_cameras_async,
\* and when that callback has run exactly one detection pass is in progress;
\* the timer callback itself changes nothing in the registry
C12_HotplugFingerprint ==
    [][ /\ (last'.op = "check_usb" /\ (last'.failed \/ usb = last_lsusb))
           => /\ idle_queue' = idle_queue
              /\ UNCHANGED <<detecting, cameras, det_workers, last_lsusb>>
        /\ (last'.op = "check_usb" /\ ~last'.failed /\ usb # last_lsusb)
           => /\ idle_queue' = Append(idle_queue, <<"detect_request">>)
              /\ last_lsusb' = usb
              /\ UNCHANGED <<detecting, cameras, det_workers>>
        /\ last'.op = "poll_hotplug"
           => UNCHANGED <<detecting, cameras, det_workers, idle_queue, last_lsusb>>
        /\ last'.op = "hotplug_detect"
           => /\ detecting'
              /\ Cardinality(RunningPasses(det_workers')) = 1
              /\ Len(det_workers') = (IF detecting THEN Len(det_workers) ELSE Len(det_workers) + 1)
              /\ cameras' = cameras
      ]_vars

\* the second fingerprint was seen and its request has started a pass
C12_Witness ==
    /\ last.op = "hotplug_detect"
    /\ last_lsusb = "f2"
    /\ Len(det_workers) = 1
    /\ det_workers[1].idx = 1
    /\ Len(cameras) = 1

C14_DriversNeverRaise ==
    /\ last.op = "set_control" => last.result \in {"True", "False"}
    /\ last.op = "get_controls" /\ last.gvfs \in {"zero", "nonzero"}
          => last.result \in {"controls", "empty"}

\* C16: the script's return is taken as a started helper exactly when its
\* output has a SUCCESS: line or its exit code is zero
C16_SuccessMarkerOrExitZero ==
    \A o \in ScriptOutcomes :
        (last.op = "worker_script_done" /\ InCalls(last, "script_returned", o))
        => (InCalls(last, "helper_started", last.cam) <=> (HasSuccessLine(o) \/ ExitZero(o)))

\* C15: when the streaming script fails, the worker records no helper for the
\* camera and hands failure to on_done; on_done then shows the error
\* notification, makes no driver call and builds no pipeline: the engine, its
\* session and the map of active helpers stay as they were
C15_HelperStartFailure ==
    [][ /\ (/\ last'.op = "worker_script_done"
            /\ \E o \in ScriptOutcomes :
                  InCalls(last', "script_returned", o) /\ ~ExitZero(o))
           => /\ active_streams' = active_streams
              /\ ~streaming_active'
              /\ idle_queue' = Append(idle_queue, <<"on_done", last'.cam, FALSE>>)
              /\ UNCHANGED <<pipeline, current_camera, appsink_timer_id, session>>
        /\ (last'.op = "on_done" /\ ~Head(idle_queue)[3])
           => /\ last'.sigs = <<"notify_error">>
              /\ last'.calls = <<>>
              /\ UNCHANGED <<pipeline, current_camera, appsink_timer_id, fps_timer_id,
                             session, active_streams, helper_procs>>
      ]_vars

\* on_done has run for a failed start: nothing plays and no helper is recorded
C15_Witness ==
    /\ last.op = "on_done"
    /\ last.sigs = <<"notify_error">>
    /\ ~pipeline
    /\ appsink_timer_id = "none"
    /\ \A p \in Ports : active_streams[p] = None

PhoneSessionLive == current_camera \in PCams /\ session = "Started"

\* C18: the ingestion server's frame callback is the engine's handler exactly
\* while a phone session is live
C18_PhoneCallbackWhileLive == frame_callback <=> PhoneSessionLive

\* a live phone session was stopped and the callback is gone
C18_Witness ==
    /\ last.op = "phone_disconnect"
    /\ last.sigs = <<"stopped">>
    /\ ~frame_callback
    /\ current_camera = None

\* the list without the entry of pid
RECURSIVE Without(_, _)
Without(pids, pid) ==
    IF pids = <<>> THEN <<>>
    ELSE (IF Head(pids) = pid THEN <<>> ELSE <<Head(pids)>>) \o Without(Tail(pids), pid)

\* C19: the names reported for a busy device are those of the holders other
\* than this process
C19_HoldersExcludeSelf ==
    last.op = "find_device_users"
    => last.users = _find_device_users(Without(last.pids, OwnPid), last.exists, last.failed)

\* C20: in the step in which on_done plays camera c after a successful setup,
\* the driver is not asked to stop c's helper, and the helper recorded for c
\* is still there when the pipeline is set up
C20_PlayKeepsOwnHelper ==
    [][ (last'.op = "on_done" /\ Head(idle_queue)[3])
        => /\ ~InCalls(last', "stop_streaming", last'.cam)
           /\ active_streams[cam_port[last'.cam]] # None
                 => active_streams'[cam_port'[last'.cam]] # None
      ]_vars

\* C21: when on_done of a setup thread that succeeded has run, the camera the
\* engine plays is the camera selected last
C21_CompletionPlaysLastSelected ==
    [][ (last'.op = "on_done" /\ Head(idle_queue)[3])
        => current_camera' = active_camera' ]_vars

\* C22: while a do_controls_then_stream thread is running, the hotplug timer
\* is not armed
C22_HotplugSuspendedDuringSetup == workers # <<>> => ~hotplug_timer

\* C23: whenever the hotplug timer is stopped it is armed again later
C23_SuspensionResumed == (~hotplug_timer) ~> hotplug_timer

\* C24: the state the window shows is "playing" only while the engine has a
\* pipeline (or, for the phone camera, its server reference): whatever drops
\* the pipeline publishes "stopped" in the same handler
C24_PlayingOnlyWithPipeline ==
    visible_state = "playing" => (pipeline \/ phone_server_ref)

\* a stop has torn a playing DSLR pipeline down and stopped its helper
C24_Witness ==
    /\ visible_state = "stopped"
    /\ ~pipeline
    /\ last.sigs = <<"stopped">>
    /\ \E c \in GCams : InCalls(last, "stop_streaming", c)

\* C25: a selection that switches from a DSLR the engine holds to a camera of
\* another backend makes no stop_streaming call in the handler itself; the
\* DSLR's teardown is handed to a background thread
C25_SwitchAwayAsync ==
    [][ (/\ last'.op = "select"
         /\ current_camera \in GCams
         /\ BackendOf(last'.cam) # "GPHOTO2")
        => /\ ~InCalls(last', "stop_streaming", current_camera)
           /\ current_camera \in stop_threads'
      ]_vars

\* C26: the background stop_streaming started when the window switched away
\* from a DSLR does not take the helper of that DSLR away once the DSLR has
\* been selected again and has a helper recorded
C26_TeardownSparesLaterHelper ==
    [][ last'.op = "stop_thread"
        => ~(/\ active_camera = last'.cam
             /\ active_streams[cam_port[last'.cam]] # None
             /\ active_streams'[cam_port'[last'.cam]] = None)
      ]_vars

\* C27: a step in which the application calls get_controls (the setup thread
\* or the profile menu) leaves every live helper process alive
C27_RemediationSparesLiveHelper ==
    [][ last'.op \in {"worker_get_controls", "save_profile"}
        => \A p \in Ports : helper_procs[p] # None => helper_procs'[p] # None
      ]_vars

\* what get_controls does when every attempt fails
FullSchedule ==
    <<<<"release", 0>>, <<"attempt", 1>>,
      <<"sleep", 3>>, <<"release", 0>>, <<"attempt", 2>>,
      <<"sleep", 5>>, <<"release", 0>>, <<"attempt", 3>>,
      <<"refresh_port", 0>>, <<"release", 0>>, <<"attempt", 4>>>>

\* C28: get_controls follows the schedule immediate / 3 s / 5 s / re-identify
\* and once more, stops at the first attempt that has output, and returns the
\* empty list only when it has gone through the whole schedule
C28_DiscoverySchedule ==
    last.op = "discover_controls"
    => /\ IsPrefix(last.trace, FullSchedule)
       /\ (last.result = "empty" /\ last.hasPaths) => last.trace = FullSchedule

\* C29: while a helper is recorded in the active-helper map the driver's
\* flag _streaming_active is set
C29_FlagWhileHelperRecorded ==
    (\E p \in Ports : active_streams[p] # None) => streaming_active

\* C30: for every DSLR whose helper is alive (the helper reading the port the
\* DSLR sits on), the channel that get_gst_source puts into the source
\* descriptor of the camera on offer is the channel the helper was launched with
C30_DescriptorNamesHelperChannel ==
    \A c \in GCams :
        helper_procs[dev_port[c]] # None => cam_udp[c] = helper_procs[dev_port[c]]

\* the steps that the GTK main loop runs: signal handlers, timers, idle callbacks
LoopOps ==
    {"select", "restart", "on_done", "try_appsink_first", "retry", "bus_message",
     "native_capture", "capture_done", "phone_disconnect", "close"}

\* the driver call name(c) of the step l starts an external program:
\* is_camera_streaming runs pgrep only for a port it has in its map
ShellsOut(l, name, c) ==
    /\ InCalls(l, name, c)
    /\ \/ name \in {"get_controls", "start_streaming", "stop_streaming"}
       \/ name = "is_camera_streaming" /\ active_streams[cam_port[c]] # None

\* C31: no step of the event loop makes a driver call that starts an external
\* program (control fetch, helper start, helper stop, helper liveness check)
C31_DriverCallsOffLoop ==
    [][ last'.op \in LoopOps
        => \A c \in GCams :
             \A name \in {"get_controls", "start_streaming", "stop_streaming",
                          "is_camera_streaming"} : ~ShellsOut(last', name, c) ]_vars

\* the steps that run in a thread started by run_async or threading.Thread
ThreadOps ==
    {"worker_acquire", "worker_get_controls", "worker_start_streaming",
     "worker_script_done", "stop_thread", "capture_thread", "detect_backend",
     "detect_finish", "check_usb"}

\* C32: a step of a worker thread changes neither the registry's camera list
\* nor a field (port, id, channel) of a CameraInfo object
C32_CamerasMutatedOnLoopOnly ==
    [][ last'.op \in ThreadOps
        => /\ cameras' = cameras
           /\ cam_port' = cam_port
           /\ cam_udp' = cam_udp ]_vars

\* the driver methods that read or modify GPhoto2Backend._active_streams
MapMethods == {"start_streaming", "stop_streaming", "is_camera_streaming"}

\* C33: while a setup thread is inside start_streaming, between its test
\* port in _active_streams  and its assignment  _active_streams[port] = udp_port,
\* no other thread runs a driver method that reads or modifies the map
C33_HelperMapUnderMutex ==
    [][ (/\ \E w \in 1..Len(workers) : workers[w].pc = "script"
         /\ last'.op # "worker_script_done")
        => \A i \in 1..Len(last'.calls) : last'.calls[i][1] \notin MapMethods ]_vars

\* C34: while a detection pass is in progress, detect_cameras of every
\* auto-detecting driver that has not returned yet is running (the drivers run
\* side by side, each in its task), and the merged list is handed over only
\* when none is left
C34_DriversDetectConcurrently ==
    /\ \A w \in 1..Len(det_workers) :
          RunningDrivers(det_workers[w]) = PendingDrivers(det_workers[w])
    /\ last.op = "detect_finish" => last.pending = {}

\* the second half of C34 on its own: a pass hands its list over only when
\* every auto-detecting driver has returned
C34_PublishedAfterAll == last.op = "detect_finish" => last.pending = {}

\* C35: whenever setup threads are running, a completion callback (on_done)
\* is later run by the main loop and the streaming lock is later free
C35_SetupCompletes ==
    (workers # <<>>) ~> (last.op = "on_done")

\* the second half of C35 on its own: a held streaming lock is released
C35_LockReleased == streaming_lock ~> ~streaming_lock

\* C36: a selection of a DSLR that _on_camera_selected drops because the
\* streaming lock is held leaves the window's active camera as it was
C36_DroppedRequestNoEffect ==
    [][ (/\ last'.op = "select"
         /\ BackendOf(last'.cam) = "GPHOTO2"
         /\ streaming_lock)
        => active_camera' = active_camera ]_vars

\* C37: when the main loop runs the detect_cameras_async callback that
\* _check_usb queued for a changed fingerprint, a detection pass begins, or the
\* pass in progress has not asked any driver yet (it is as good as one begun
\* after the change was observed)
C37_ObservedChangeDetected ==
    [][ last'.op = "hotplug_detect"
        => \/ Len(det_workers') = Len(det_workers) + 1
           \/ \E w \in 1..Len(det_workers') :
                 /\ det_workers'[w].pc = "loop"
                 /\ det_workers'[w].idx = NextBackend(1) ]_vars

\* C38: get_controls returns the control of every config path that can be
\* read, whichever batches failed: the paths of a failed batch are read one at
\* a time and the other batches are read as usual
C38_FailedBatchDegrades ==
    last.op = "read_controls"
    => \A q \in 1..last.n :
          q \notin last.bad => \E i \in 1..Len(last.controls) : last.controls[i] = q

\* C38 for the batches that fail with a non-zero exit code only
C38_NonzeroBatchDegrades ==
    (/\ last.op = "read_controls"
     /\ \A b \in DOMAIN last.outs : last.outs[b] # "timeout")
    => \A q \in 1..last.n :
          q \notin last.bad => \E i \in 1..Len(last.controls) : last.controls[i] = q

\* C39: when the first list of cameras after start-up holds a camera whose id
\* is the saved "last-camera-id", that camera is the one (and the only one)
\* that is selected and played, and the setting still holds its id
C39_LastCameraRestored ==
    (/\ last.op = "first_cameras_changed"
     /\ \E i \in 1..Len(last.cams) : last.cams[i] = last.saved)
    => /\ last.started = <<last.saved>>
       /\ last.active = last.saved
       /\ last.last_id = last.saved

\* C39 when the dropdown emits no notify::selected while it is filled
C39_RestoredWithoutNotify ==
    (/\ last.op = "first_cameras_changed"
     /\ ~last.notified
     /\ \E i \in 1..Len(last.cams) : last.cams[i] = last.saved)
    => /\ last.started = <<last.saved>>
       /\ last.active = last.saved
       /\ last.last_id = last.saved

\* C40: for every key, a value of the key's own type that was written with set
\* is what the next get of the key returns, lists included
C40_SetGetRoundTrip ==
    (last.op = "set_get" /\ last.value.kind = _DEFAULTS[last.key].kind)
    => last.got = last.value

\* C40 for the keys whose default is a boolean, a number or a string
C40_ScalarRoundTrip ==
    (/\ last.op = "set_get"
     /\ last.value.kind = _DEFAULTS[last.key].kind
     /\ last.value.kind # "list")
    => last.got = last.value

====
